---- MODULE Spec2Model ----
(***************************************************************************)
(* SeleniumLibrary 3.0.0b1: the library facade (run_keyword, the           *)
(* run-on-failure hook, the current browser) and the cookie keywords.      *)
(*                                                                         *)
(* Python values are tagged records [t, v]: t names the Python type and v  *)
(* carries the value.  A Python string is a sequence of one-character      *)
(* strings, so that the code's character-level operations can be modelled. *)
(***************************************************************************)
EXTENDS Integers, Sequences, FiniteSets, TLC

VARIABLES
  run_on_failure_keyword,        \* SeleniumLibrary.run_on_failure_keyword
  _running_on_failure_keyword,   \* SeleniumLibrary._running_on_failure_keyword
  sessions,                      \* BrowserCache: aliases of the open sessions
  current,                       \* BrowserCache.current
  stack,                         \* active run_keyword calls, outermost first
  last,                          \* what the most recent run_keyword call did
  utcoffset,                     \* the local time zone, seconds east of UTC
  wire_map,                      \* a cookie as the browser returned it
  cookie,                        \* the CookieInformation built from wire_map
  args,                          \* the arguments of an add_cookie call
  new_cookie,                    \* what add_cookie gave browser.add_cookie
  error,                         \* the exception add_cookie raised, if any
  cookies,                       \* the cookies of the current browser
  result                         \* what the most recent cookie keyword did

facadeVars == <<run_on_failure_keyword, _running_on_failure_keyword,
                sessions, current, stack, last>>

translatorVars == <<utcoffset, wire_map, cookie, args, new_cookie, error>>

cookieVars == <<cookies, result>>

vars == <<facadeVars, translatorVars, cookieVars>>

-----------------------------------------------------------------------------
(* Python values *)

PyNone == [t |-> "none", v |-> 0]
PyStr(s) == [t |-> "str", v |-> s]
PyBool(b) == [t |-> "bool", v |-> b]
PyInt(i) == [t |-> "int", v |-> i]
\* datetime.datetime(year, month, day, hour, minute, second), a naive local time
PyDatetime(fields) == [t |-> "datetime", v |-> fields]

\* bool(x), as `not x` and `if x` evaluate it
truth(x) ==
  CASE x.t = "none" -> FALSE
    [] x.t = "bool" -> x.v
    [] x.t = "int" -> x.v # 0
    [] x.t = "str" -> x.v # <<>>
    [] OTHER -> TRUE

-----------------------------------------------------------------------------
(* Bounds *)

\* deepest nesting of run_keyword calls (a hook keyword that calls keywords)
MaxDepth == 3

-----------------------------------------------------------------------------
(* The library facade *)

Aliases == {"s1", "s2"}
\* BrowserCache's "no current connection" object; it is false as a boolean
NoConnection == "NoConnection"

\* "Capture Page Screenshot" (the default), "Log Source" and "Nothing"
CapturePageScreenshot ==
  <<"C", "a", "p", "t", "u", "r", "e", " ",
  "P", "a", "g", "e", " ", "S", "c", "r", "e", "e", "n", "s", "h", "o", "t">>
LogSource == <<"L", "o", "g", " ", "S", "o", "u", "r", "c", "e">>
Nothing == <<"N", "o", "t", "h", "i", "n", "g">>
KeywordNames == {CapturePageScreenshot, LogSource}
RunOnFailureArgs == KeywordNames \cup {Nothing}

\* the keywords the host (or a hook keyword) can run through run_keyword
Keywords ==
  [op : {"open_browser", "switch_browser"}, arg : {<<a>> : a \in Aliases}]
  \cup [op : {"close_browser", "close_all_browsers", "click_element",
              "capture_page_screenshot"}, arg : {<<>>}]
  \cup [op : {"register_keyword_to_run_on_failure"}, arg : RunOnFailureArgs]


Exc(type, msg, depth) == [type |-> type, msg |-> msg, depth |-> depth]
NoExc == Exc("", "", 0)

NoCall ==
  [op |-> "", arg |-> <<>>, depth |-> 0, status |-> "NONE", exc |-> NoExc,
   started |-> 0, logged |-> NoExc, value |-> ""]

\* RunOnFailureKeywords.resolve_keyword: "Nothing" disables the feature
resolve_keyword(name) == IF name = Nothing THEN PyNone ELSE PyStr(name)

\* RunOnFailureKeywords.register_keyword_to_run_on_failure: the keyword
\* stored from now on, in place of the previous one
register_keyword_to_run_on_failure(keyword) == resolve_keyword(keyword)

\* browser, testing for an empty registry instead of a missing current session
browser_tests_registry ==
  IF sessions = {}
    THEN [raised |-> TRUE, exc |-> [type |-> "RuntimeError",
                                   msg |-> "No browser is open"],
          value |-> ""]
    ELSE [raised |-> FALSE, exc |-> [type |-> "", msg |-> ""],
          value |-> current]

\* SeleniumLibrary.browser: the outcome of reading the property
browser ==
  IF ~(current # NoConnection)
    THEN [raised |-> TRUE, exc |-> [type |-> "RuntimeError",
                                   msg |-> "No browser is open"],
          value |-> ""]
    ELSE [raised |-> FALSE, exc |-> [type |-> "", msg |-> ""],
          value |-> current]

\* BrowserCache.register, reached through SeleniumLibrary.register_browser
register_browser(alias) ==
  IF alias \in sessions
    THEN [ok |-> FALSE, type |-> "DuplicateAlias", sessions |-> sessions,
          current |-> current]
    ELSE [ok |-> TRUE, type |-> "", sessions |-> sessions \cup {alias},
          current |-> alias]

switch_browser(alias) ==
  IF alias \notin sessions
    THEN [ok |-> FALSE, type |-> "SessionNotFound", sessions |-> sessions,
          current |-> current]
    ELSE [ok |-> TRUE, type |-> "", sessions |-> sessions, current |-> alias]

close_browser ==
  [ok |-> TRUE, type |-> "", sessions |-> sessions \ {current},
   current |-> NoConnection]

close_all_browsers ==
  [ok |-> TRUE, type |-> "", sessions |-> {}, current |-> NoConnection]

\* What a keyword's body (DynamicCore.run_keyword) can do in the present
\* state: the set of its possible outcomes.
keyword_outcomes(kw) ==
  LET out(ok, type, msg, s, c, k, v) ==
        [ok |-> ok, type |-> type, msg |-> msg, sessions |-> s,
         current |-> c, keyword |-> k, value |-> v]
      reg(r) == out(r.ok, r.type, "", r.sessions, r.current,
                    run_on_failure_keyword, "")
      b == browser
  IN  CASE kw.op = "open_browser" -> {reg(register_browser(kw.arg[1]))}
        [] kw.op = "switch_browser" -> {reg(switch_browser(kw.arg[1]))}
        [] kw.op = "close_browser" -> {reg(close_browser)}
        [] kw.op = "close_all_browsers" -> {reg(close_all_browsers)}
        [] kw.op = "register_keyword_to_run_on_failure" ->
             {out(TRUE, "", "", sessions, current,
                  register_keyword_to_run_on_failure(kw.arg), "")}
        [] OTHER ->
             \* a keyword that drives the current browser
             IF b.raised
               THEN {out(FALSE, b.exc.type, b.exc.msg, sessions, current,
                         run_on_failure_keyword, "")}
               ELSE {out(TRUE, "", "", sessions, current,
                         run_on_failure_keyword, b.value),
                     out(FALSE, "ElementNotFound", "", sessions, current,
                         run_on_failure_keyword, b.value)}


-----------------------------------------------------------------------------
(* Text *)

Digits == {"0", "1", "2", "3", "4", "5", "6", "7", "8", "9"}

DigitValue(c) ==
  CASE c = "0" -> 0 [] c = "1" -> 1 [] c = "2" -> 2 [] c = "3" -> 3
    [] c = "4" -> 4 [] c = "5" -> 5 [] c = "6" -> 6 [] c = "7" -> 7
    [] c = "8" -> 8 [] c = "9" -> 9

\* the decimal number a sequence of digits spells (0 for none)
RECURSIVE Decimal(_)
Decimal(ds) ==
  IF ds = <<>> THEN 0
  ELSE 10 * Decimal(SubSeq(ds, 1, Len(ds) - 1)) + DigitValue(ds[Len(ds)])

\* str.strip() for blanks
RECURSIVE Strip(_)
Strip(s) ==
  IF s # <<>> /\ s[1] = " " THEN Strip(Tail(s))
  ELSE IF s # <<>> /\ s[Len(s)] = " " THEN Strip(SubSeq(s, 1, Len(s) - 1))
  ELSE s

\* ''.join(d for d in s if d.isdigit())
RECURSIVE OnlyDigits(_)
OnlyDigits(s) ==
  IF s = <<>> THEN <<>>
  ELSE (IF s[1] \in Digits THEN <<s[1]>> ELSE <<>>) \o OnlyDigits(Tail(s))

\* str.ljust(n, '0')
RECURSIVE LJustZero(_, _)
LJustZero(s, n) == IF Len(s) >= n THEN s ELSE LJustZero(s \o <<"0">>, n)

UpperChar(c) ==
  CASE c = "a" -> "A" [] c = "e" -> "E" [] c = "f" -> "F" [] c = "l" -> "L"
    [] c = "n" -> "N" [] c = "o" -> "O" [] c = "s" -> "S" [] c = "t" -> "T"
    [] c = "r" -> "R" [] c = "u" -> "U" [] c = "y" -> "Y"
    [] OTHER -> c

\* str.upper(), on the letters the model's texts use
Upper(s) == [i \in 1..Len(s) |-> UpperChar(s[i])]

-----------------------------------------------------------------------------
(* Calendar: the proleptic Gregorian calendar of datetime and time.mktime *)

IsLeap(y) == (y % 4 = 0 /\ y % 100 # 0) \/ y % 400 = 0

DaysInMonth(y, m) ==
  CASE m \in {4, 6, 9, 11} -> 30
    [] m = 2 -> IF IsLeap(y) THEN 29 ELSE 28
    [] OTHER -> 31

\* days from 1970-01-01 to y-m-d
DaysFromCivil(y, m, d) ==
  LET yy == IF m <= 2 THEN y - 1 ELSE y
      era == yy \div 400
      yoe == yy - era * 400
      mp == IF m > 2 THEN m - 3 ELSE m + 9
      doy == (153 * mp + 2) \div 5 + d - 1
      doe == yoe * 365 + yoe \div 4 - yoe \div 100 + doy
  IN  era * 146097 + doe - 719468

\* <<year, month, day>> of the day `days` after 1970-01-01
CivilFromDays(days) ==
  LET z == days + 719468
      era == z \div 146097
      doe == z - era * 146097
      yoe == (doe - doe \div 1460 + doe \div 36524 - doe \div 146096) \div 365
      doy == doe - (365 * yoe + yoe \div 4 - yoe \div 100)
      mp == (5 * doy + 2) \div 153
      d == doy - (153 * mp + 2) \div 5 + 1
      m == IF mp < 10 THEN mp + 3 ELSE mp - 9
      y == yoe + era * 400 + (IF m <= 2 THEN 1 ELSE 0)
  IN  <<y, m, d>>

\* datetime.fromtimestamp(epoch): the local calendar time of an epoch value
fromtimestamp(epoch) ==
  LET local == epoch + utcoffset
      days == local \div 86400
      secs == local % 86400
      ymd == CivilFromDays(days)
  IN  PyDatetime(<<ymd[1], ymd[2], ymd[3],
                   secs \div 3600, (secs % 3600) \div 60, secs % 60>>)

\* time.mktime: the epoch value of a local calendar time
mktime(f) ==
  DaysFromCivil(f[1], f[2], f[3]) * 86400 + f[4] * 3600 + f[5] * 60 + f[6]
    - utcoffset

-----------------------------------------------------------------------------
(* The cookie keywords' conversions *)

\* text used as cookie fields
foo == <<"f", "o", "o">>
bar == <<"b", "a", "r">>
baz == <<"b", "a", "z">>
RootPath == <<"/">>
ExampleCom == <<"e", "x", "a", "m", "p", "l", "e", ".", "c", "o", "m">>

\* no wire map
NoWire == [none |-> PyNone]

\* no CookieInformation
NoCookie ==
  [name |-> PyNone, value |-> PyNone, path |-> PyNone, domain |-> PyNone,
   secure |-> PyNone, httpOnly |-> PyNone, expiry |-> PyNone]

\* no add_cookie call
NoArgs ==
  [name |-> PyNone, value |-> PyNone, path |-> PyNone, domain |-> PyNone,
   secure |-> PyNone, expiry |-> PyNone]

\* a keyword argument of CookieInformation(**cookie): the wire map's value,
\* or the parameter's default
Kwarg(m, key, default) == IF key \in DOMAIN m THEN m[key] ELSE default

\* CookieInformation.__init__
CookieInformation(m) ==
  LET expiry == Kwarg(m, "expiry", PyNone)
  IN  [name |-> m.name,
       value |-> m.value,
       path |-> Kwarg(m, "path", PyNone),
       domain |-> Kwarg(m, "domain", PyNone),
       secure |-> Kwarg(m, "secure", PyBool(FALSE)),
       httpOnly |-> Kwarg(m, "httpOnly", PyBool(FALSE)),
       expiry |-> IF truth(expiry) THEN fromtimestamp(expiry.v) ELSE PyNone]

\* utils.is_noney: the argument was left unset
is_noney(item) == item.t = "none"

\* utils.is_truthy: the empty string, "false", "no" and "none" in any case
\* are false, every other string is true; otherwise the value's own truth
is_truthy(item) ==
  IF item.t = "str"
    THEN Upper(item.v) \notin {<<>>, <<"F", "A", "L", "S", "E">>,
                               <<"N", "O">>, <<"N", "O", "N", "E">>}
    ELSE truth(item)

Returned(v) == [raised |-> FALSE, type |-> "", v |-> v]
Raised(type) == [raised |-> TRUE, type |-> type, v |-> 0]

\* int(x)
int(x) ==
  CASE x.t = "int" -> Returned(x.v)
    [] x.t = "bool" -> Returned(IF x.v THEN 1 ELSE 0)
    [] x.t = "str" ->
         LET s == Strip(x.v)
             signed == s # <<>> /\ s[1] \in {"+", "-"}
             ds == IF signed THEN Tail(s) ELSE s
         IN  IF ds # <<>> /\ \A i \in 1..Len(ds) : ds[i] \in Digits
               THEN Returned(IF signed /\ s[1] = "-" THEN 0 - Decimal(ds)
                             ELSE Decimal(ds))
               ELSE Raised("ValueError")
    [] OTHER -> Raised("TypeError")

\* robot.libraries.DateTime.convert_date(date, result_format='epoch') for a
\* date given as text: the digits of the text are read as YYYYMMDDhhmmss and
\* a fraction, and the local time they spell is converted to epoch seconds
\* (the fraction is dropped by the caller's int())
convert_date(date) ==
  IF date.t = "datetime" THEN Returned(mktime(date.v))
  ELSE IF date.t = "int" THEN Returned(date.v)
  ELSE IF date.t # "str" THEN Raised("ValueError")
  ELSE
    LET ds == OnlyDigits(date.v)
        ts == LJustZero(ds, 20)
        y == Decimal(SubSeq(ts, 1, 4))
        mo == Decimal(SubSeq(ts, 5, 6))
        d == Decimal(SubSeq(ts, 7, 8))
        h == Decimal(SubSeq(ts, 9, 10))
        mi == Decimal(SubSeq(ts, 11, 12))
        sec == Decimal(SubSeq(ts, 13, 14))
    IN  IF Len(ds) < 8 \/ Len(ds) > 20 THEN Raised("ValueError")
        ELSE IF y < 1 \/ mo < 1 \/ mo > 12 \/ d < 1 \/ d > DaysInMonth(y, mo)
                \/ h > 23 \/ mi > 59 \/ sec > 59
          THEN Raised("ValueError")
        ELSE Returned(mktime(<<y, mo, d, h, mi, sec>>))

\* _expiry that reads the expiry as a date first and as an epoch integer
\* only when that fails
_expiry_date_first(expiry) ==
  LET asdate == convert_date(expiry)
  IN  IF expiry.t = "str" /\ ~asdate.raised THEN asdate ELSE int(expiry)

\* CookieKeywords._expiry
_expiry(expiry) ==
  LET asint == int(expiry)
  IN  IF asint.raised /\ asint.type = "ValueError"
        THEN convert_date(expiry)
        ELSE asint

Field(key, value) == key :> value
NoField == [k \in {} |-> PyNone]

\* add_cookie that tests the arguments for truth instead of for None
add_cookie_drops_false(name, value, path, domain, secure, expiry) ==
  LET e == IF truth(expiry) THEN _expiry(expiry) ELSE Returned(0)
  IN  IF e.raised
        THEN [error |-> e.type, new_cookie |-> NoWire]
        ELSE [error |-> "",
              new_cookie |->
                Field("name", name) @@ Field("value", value)
                @@ (IF truth(path) THEN Field("path", path) ELSE NoField)
                @@ (IF truth(domain) THEN Field("domain", domain)
                    ELSE NoField)
                @@ (IF truth(secure)
                      THEN Field("secure", PyBool(is_truthy(secure)))
                      ELSE NoField)
                @@ (IF truth(expiry) THEN Field("expiry", PyInt(e.v))
                    ELSE NoField)]

\* add_cookie that sends secure as the caller gave it
add_cookie_sends_secure_as_given(name, value, path, domain, secure, expiry) ==
  LET e == IF ~is_noney(expiry) THEN _expiry(expiry) ELSE Returned(0)
  IN  IF e.raised
        THEN [error |-> e.type, new_cookie |-> NoWire]
        ELSE [error |-> "",
              new_cookie |->
                Field("name", name) @@ Field("value", value)
                @@ (IF ~is_noney(path) THEN Field("path", path) ELSE NoField)
                @@ (IF ~is_noney(domain) THEN Field("domain", domain)
                    ELSE NoField)
                @@ (IF ~is_noney(secure) THEN Field("secure", secure)
                    ELSE NoField)
                @@ (IF ~is_noney(expiry) THEN Field("expiry", PyInt(e.v))
                    ELSE NoField)]

\* CookieKeywords.add_cookie up to its call of browser.add_cookie: the
\* exception it raises, or the map it hands to the browser
add_cookie(name, value, path, domain, secure, expiry) ==
  LET e == IF ~is_noney(expiry) THEN _expiry(expiry) ELSE Returned(0)
  IN  IF e.raised
        THEN [error |-> e.type, new_cookie |-> NoWire]
        ELSE [error |-> "",
              new_cookie |->
                Field("name", name) @@ Field("value", value)
                @@ (IF ~is_noney(path) THEN Field("path", path) ELSE NoField)
                @@ (IF ~is_noney(domain) THEN Field("domain", domain)
                    ELSE NoField)
                @@ (IF ~is_noney(secure)
                      THEN Field("secure", PyBool(is_truthy(secure)))
                      ELSE NoField)
                @@ (IF ~is_noney(expiry) THEN Field("expiry", PyInt(e.v))
                    ELSE NoField)]

\* no cookie keyword has run
NoResult ==
  [kw |-> "", arg |-> PyNone, status |-> "NONE", error |-> "",
   value |-> PyNone]

\* the cookie keywords' variables while they are not run
CookiesIdle ==
  /\ cookies = <<>>
  /\ result = NoResult

\* the translator's variables while the facade runs
TranslatorIdle ==
  /\ utcoffset = 0
  /\ wire_map = NoWire
  /\ cookie = NoCookie
  /\ args = NoArgs
  /\ new_cookie = NoWire
  /\ error = ""

-----------------------------------------------------------------------------
(* run_keyword and the run-on-failure hook *)

Top == stack[Len(stack)]
Pop == SubSeq(stack, 1, Len(stack) - 1)

\* run_keyword is entered: by the host, or by the hook keyword that
\* BuiltIn().run_keyword is executing
run_keyword_call(kw) ==
  /\ \/ stack = <<>>
     \/ /\ stack # <<>>
        /\ Top.pc = "hook"
        /\ Len(stack) < MaxDepth
  /\ stack' = Append(stack, [op |-> kw.op, arg |-> kw.arg, pc |-> "body",
                             exc |-> NoExc, started |-> 0, value |-> "",
                             keyword |-> PyNone])
  /\ UNCHANGED <<run_on_failure_keyword, _running_on_failure_keyword,
                 sessions, current, last>>
  /\ UNCHANGED <<translatorVars, cookieVars>>

\* run_keyword: the keyword's body returns normally
run_keyword_return ==
  /\ stack # <<>>
  /\ Top.pc = "body"
  /\ \E o \in keyword_outcomes(Top) :
       /\ o.ok
       /\ sessions' = o.sessions
       /\ current' = o.current
       /\ run_on_failure_keyword' = o.keyword
       /\ last' = [op |-> Top.op, arg |-> Top.arg, depth |-> Len(stack),
                   status |-> "PASS", exc |-> NoExc, started |-> 0,
                   logged |-> NoExc, value |-> o.value]
  /\ stack' = Pop
  /\ UNCHANGED _running_on_failure_keyword
  /\ UNCHANGED <<translatorVars, cookieVars>>

\* the guard without its re-entrancy test
failure_occurred_skips_unguarded(keyword) == ~truth(keyword)

\* the guard without its test for a stored keyword
failure_occurred_skips_always_runs(keyword) == _running_on_failure_keyword

\* failure_occurred's guard: nothing to do
failure_occurred_skips(keyword) ==
  _running_on_failure_keyword \/ ~truth(keyword)

\* run_keyword with an except clause that re-raises without calling
\* failure_occurred
run_keyword_except_no_hook ==
  /\ stack # <<>>
  /\ Top.pc = "body"
  /\ \E o \in keyword_outcomes(Top) :
       /\ ~o.ok
       /\ sessions' = o.sessions
       /\ current' = o.current
       /\ run_on_failure_keyword' = o.keyword
       /\ stack' = Pop
       /\ last' = [op |-> Top.op, arg |-> Top.arg, depth |-> Len(stack),
                   status |-> "FAIL",
                   exc |-> Exc(o.type, o.msg, Len(stack)), started |-> 0,
                   logged |-> NoExc, value |-> o.value]
       /\ UNCHANGED _running_on_failure_keyword
  /\ UNCHANGED <<translatorVars, cookieVars>>

\* run_keyword: the body raises; the except clause calls failure_occurred,
\* which either returns at once (and run_keyword re-raises) or sets the flag
\* and hands the hook keyword to BuiltIn().run_keyword
run_keyword_except ==
  /\ stack # <<>>
  /\ Top.pc = "body"
  /\ \E o \in keyword_outcomes(Top) :
       /\ ~o.ok
       /\ sessions' = o.sessions
       /\ current' = o.current
       /\ run_on_failure_keyword' = o.keyword
       /\ LET e == Exc(o.type, o.msg, Len(stack))
          IN  IF failure_occurred_skips(o.keyword)
                THEN /\ stack' = Pop
                     /\ last' = [op |-> Top.op, arg |-> Top.arg,
                                 depth |-> Len(stack), status |-> "FAIL",
                                 exc |-> e, started |-> 0, logged |-> NoExc,
                                 value |-> o.value]
                     /\ UNCHANGED _running_on_failure_keyword
                ELSE /\ _running_on_failure_keyword' = TRUE
                     /\ stack' = [stack EXCEPT ![Len(stack)] =
                                    [@ EXCEPT !.pc = "hook", !.exc = e,
                                              !.started = @ + 1,
                                              !.value = o.value,
                                              !.keyword = o.keyword]]
                     /\ UNCHANGED last
  /\ UNCHANGED <<translatorVars, cookieVars>>

\* failure_occurred without its except clause: the hook's failure escapes
\* and replaces the keyword's
failure_occurred_finish_uncaught(raised, hookexc) ==
  /\ _running_on_failure_keyword' = FALSE
  /\ stack' = Pop
  /\ last' = [op |-> Top.op, arg |-> Top.arg, depth |-> Len(stack),
              status |-> "FAIL",
              exc |-> IF raised THEN hookexc ELSE Top.exc,
              started |-> Top.started, logged |-> NoExc,
              value |-> Top.value]
  /\ UNCHANGED <<run_on_failure_keyword, sessions, current>>
  /\ UNCHANGED <<translatorVars, cookieVars>>

\* failure_occurred without its finally clause: the flag stays set
failure_occurred_finish_keeps_flag(raised, hookexc) ==
  /\ UNCHANGED _running_on_failure_keyword
  /\ stack' = Pop
  /\ last' = [op |-> Top.op, arg |-> Top.arg, depth |-> Len(stack),
              status |-> "FAIL", exc |-> Top.exc, started |-> Top.started,
              logged |-> IF raised THEN hookexc ELSE NoExc,
              value |-> Top.value]
  /\ UNCHANGED <<run_on_failure_keyword, sessions, current>>
  /\ UNCHANGED <<translatorVars, cookieVars>>

\* failure_occurred after BuiltIn().run_keyword came back: `raised` tells
\* whether it raised (then the except clause logs a warning); the finally
\* clause clears the flag, failure_occurred returns and run_keyword re-raises
failure_occurred_finish(raised, hookexc) ==
  /\ _running_on_failure_keyword' = FALSE
  /\ stack' = Pop
  /\ last' = [op |-> Top.op, arg |-> Top.arg, depth |-> Len(stack),
              status |-> "FAIL", exc |-> Top.exc, started |-> Top.started,
              logged |-> IF raised THEN hookexc ELSE NoExc,
              value |-> Top.value]
  /\ UNCHANGED <<run_on_failure_keyword, sessions, current>>
  /\ UNCHANGED <<translatorVars, cookieVars>>

\* the hook keyword ran to its end
hook_returns ==
  /\ stack # <<>>
  /\ Top.pc = "hook"
  /\ failure_occurred_finish(FALSE, NoExc)

\* the hook keyword failed: with the failure of the keyword it ran last, or
\* with one of its own
hook_raises ==
  /\ stack # <<>>
  /\ Top.pc = "hook"
  /\ \E e \in {Exc("HookError", "", Len(stack))}
              \cup (IF last.status = "FAIL" /\ last.depth = Len(stack) + 1
                      THEN {last.exc} ELSE {}) :
       failure_occurred_finish(TRUE, e)

Init ==
  /\ \E name \in RunOnFailureArgs :
       run_on_failure_keyword = resolve_keyword(name)
  /\ _running_on_failure_keyword = FALSE
  /\ sessions = {}
  /\ current = NoConnection
  /\ stack = <<>>
  /\ last = NoCall
  /\ TranslatorIdle
  /\ CookiesIdle

Next ==
  \/ \E kw \in Keywords : run_keyword_call(kw)
  \/ run_keyword_return
  \/ run_keyword_except
  \/ hook_returns
  \/ hook_raises

Spec == Init /\ [][Next]_vars


-----------------------------------------------------------------------------
(* The conversions on their own: one wire map converted to a              *)
(* CookieInformation and given back to add_cookie, or one add_cookie call  *)

\* New York (EST), UTC and Helsinki (EEST), each taken as a fixed offset
UtcOffsets == {0 - 18000, 0, 10800}

Optional(key, values) == {NoField} \cup {Field(key, v) : v \in values}

\* the cookies a browser can return, made of the recognized fields
WireMaps ==
  {Field("name", PyStr(foo)) @@ Field("value", v) @@ p @@ d @@ s @@ h @@ e :
     v \in {PyStr(bar), PyStr(<<>>)},
     p \in Optional("path", {PyStr(RootPath), PyStr(<<>>)}),
     d \in Optional("domain", {PyStr(ExampleCom)}),
     s \in Optional("secure", {PyBool(FALSE), PyBool(TRUE)}),
     h \in Optional("httpOnly", {PyBool(FALSE), PyBool(TRUE)}),
     e \in Optional("expiry", {PyInt(0), PyInt(1), PyInt(86399),
                               PyInt(951782400), PyInt(1822137695)})}

\* expiry arguments, each with the form it has for the caller and what it
\* denotes: the epoch seconds, or the local calendar time
ExpiryCases ==
  {
    \* expiry=1822137695, given as a number
    [arg |-> PyInt(1822137695), form |-> "epoch", epoch |-> 1822137695,
        local |-> <<>>],
    [arg |-> PyInt(0), form |-> "epoch", epoch |-> 0, local |-> <<>>],
    \* "1822137695"
    [arg |-> PyStr(<<"1", "8", "2", "2", "1", "3", "7", "6", "9", "5">>),
        form |-> "epoch", epoch |-> 1822137695, local |-> <<>>],
    \* "0"
    [arg |-> PyStr(<<"0">>), form |-> "epoch", epoch |-> 0, local |-> <<>>],
    \* " 42 "
    [arg |-> PyStr(<<" ", "4", "2", " ">>), form |-> "epoch", epoch |-> 42,
        local |-> <<>>],
    \* "-1"
    [arg |-> PyStr(<<"-", "1">>), form |-> "epoch", epoch |-> -1,
        local |-> <<>>],
    \* "20270928": an epoch value, although it also reads as a date
    [arg |-> PyStr(<<"2", "0", "2", "7", "0", "9", "2", "8">>),
        form |-> "epoch", epoch |-> 20270928, local |-> <<>>],
    \* "2027-09-28 16:21:35"
    [arg |-> PyStr(<<"2", "0", "2", "7", "-", "0", "9", "-", "2", "8", " ",
        "1", "6", ":", "2", "1", ":", "3", "5">>), form |-> "date",
        epoch |-> 0, local |-> <<2027, 9, 28, 16, 21, 35>>],
    \* "2027-09-28"
    [arg |-> PyStr(<<"2", "0", "2", "7", "-", "0", "9", "-", "2", "8">>),
        form |-> "date", epoch |-> 0, local |-> <<2027, 9, 28, 0, 0, 0>>],
    \* "2000.02.29 23:59"
    [arg |-> PyStr(<<"2", "0", "0", "0", ".", "0", "2", ".", "2", "9", " ",
        "2", "3", ":", "5", "9">>), form |-> "date", epoch |-> 0,
        local |-> <<2000, 2, 29, 23, 59, 0>>],
    \* "1970-01-02 00:00:00"
    [arg |-> PyStr(<<"1", "9", "7", "0", "-", "0", "1", "-", "0", "2", " ",
        "0", "0", ":", "0", "0", ":", "0", "0">>), form |-> "date",
        epoch |-> 0, local |-> <<1970, 1, 2, 0, 0, 0>>],
    \* "soon"
    [arg |-> PyStr(<<"s", "o", "o", "n">>), form |-> "neither",
        epoch |-> 0, local |-> <<>>],
    \* ""
    [arg |-> PyStr(<<>>), form |-> "neither", epoch |-> 0, local |-> <<>>],
    \* "12.5"
    [arg |-> PyStr(<<"1", "2", ".", "5">>), form |-> "neither",
        epoch |-> 0, local |-> <<>>],
    \* "2027-13-01 00:00:00"
    [arg |-> PyStr(<<"2", "0", "2", "7", "-", "1", "3", "-", "0", "1", " ",
        "0", "0", ":", "0", "0", ":", "0", "0">>), form |-> "neither",
        epoch |-> 0, local |-> <<>>],
    \* "2027-02-29"
    [arg |-> PyStr(<<"2", "0", "2", "7", "-", "0", "2", "-", "2", "9">>),
        form |-> "neither", epoch |-> 0, local |-> <<>>],
    \* a datetime object
    [arg |-> PyDatetime(<<2027, 9, 28, 16, 21, 35>>), form |-> "neither",
        epoch |-> 0, local |-> <<>>]
  }

\* secure arguments, each with the value the browser is to receive
SecureCases ==
  {
    [arg |-> PyStr(<<>>), sent |-> FALSE],
    [arg |-> PyStr(<<"f", "a", "l", "s", "e">>), sent |-> FALSE],
    [arg |-> PyStr(<<"F", "a", "l", "s", "e">>), sent |-> FALSE],
    [arg |-> PyStr(<<"n", "o">>), sent |-> FALSE],
    [arg |-> PyStr(<<"t", "r", "u", "e">>), sent |-> TRUE],
    [arg |-> PyStr(<<"y", "e", "s">>), sent |-> TRUE],
    [arg |-> PyBool(FALSE), sent |-> FALSE],
    [arg |-> PyBool(TRUE), sent |-> TRUE],
    [arg |-> PyInt(0), sent |-> FALSE]
  }

AddCookieArgs ==
  [name : {PyStr(foo)},
   value : {PyStr(bar), PyStr(<<>>)},
   path : {PyNone, PyStr(<<>>), PyStr(RootPath)},
   domain : {PyNone, PyStr(<<>>), PyStr(ExampleCom)},
   secure : {PyNone} \cup {c.arg : c \in SecureCases},
   expiry : {PyNone} \cup {c.arg : c \in ExpiryCases}]

\* the facade's variables while the conversions run
FacadeIdle ==
  /\ run_on_failure_keyword = PyNone
  /\ _running_on_failure_keyword = FALSE
  /\ sessions = {}
  /\ current = NoConnection
  /\ stack = <<>>
  /\ last = NoCall

TranslatorInit ==
  /\ FacadeIdle
  /\ utcoffset \in UtcOffsets
  /\ \/ wire_map \in WireMaps /\ args = NoArgs
     \/ wire_map = NoWire /\ args \in AddCookieArgs
  /\ cookie = NoCookie
  /\ new_cookie = NoWire
  /\ error = ""
  /\ CookiesIdle

\* get_cookie's last line: CookieInformation(**cookie)
to_domain ==
  /\ wire_map # NoWire
  /\ cookie = NoCookie
  /\ cookie' = CookieInformation(wire_map)
  /\ UNCHANGED <<utcoffset, wire_map, args, new_cookie, error>>
  /\ UNCHANGED <<facadeVars, cookieVars>>

\* add_cookie runs with the arguments a
add_cookie_runs(a) ==
  LET r == add_cookie(a.name, a.value, a.path, a.domain, a.secure, a.expiry)
  IN  /\ new_cookie' = r.new_cookie
      /\ error' = r.error

\* add_cookie is called with the fields of the CookieInformation
add_cookie_of_record ==
  /\ cookie # NoCookie
  /\ args = NoArgs
  /\ args' = [name |-> cookie.name, value |-> cookie.value,
              path |-> cookie.path, domain |-> cookie.domain,
              secure |-> cookie.secure, expiry |-> cookie.expiry]
  /\ add_cookie_runs(args')
  /\ UNCHANGED <<utcoffset, wire_map, cookie>>
  /\ UNCHANGED <<facadeVars, cookieVars>>

\* add_cookie is called with arguments of the caller's own
add_cookie_call ==
  /\ wire_map = NoWire
  /\ args # NoArgs
  /\ new_cookie = NoWire
  /\ error = ""
  /\ add_cookie_runs(args)
  /\ UNCHANGED <<utcoffset, wire_map, cookie, args>>
  /\ UNCHANGED <<facadeVars, cookieVars>>

TranslatorNext ==
  \/ to_domain
  \/ add_cookie_of_record
  \/ add_cookie_call

TranslatorSpec == TranslatorInit /\ [][TranslatorNext]_vars

-----------------------------------------------------------------------------
(* The cookie keywords on the current browser *)

CookieNames == {PyStr(foo), PyStr(baz)}

\* WebDriver.get_cookie: the first cookie of that name, or None
driver_get_cookie(name) ==
  LET hits == {i \in 1..Len(cookies) : cookies[i].name = name}
  IN  IF hits = {} THEN NoWire
      ELSE cookies[CHOOSE i \in hits : \A j \in hits : i <= j]

\* the jar without the cookies of that name
RECURSIVE Without(_, _)
Without(jar, name) ==
  IF jar = <<>> THEN <<>>
  ELSE (IF jar[1].name = name THEN <<>> ELSE <<jar[1]>>)
       \o Without(Tail(jar), name)

\* WebDriver.add_cookie: the browser stores the cookie, with its own values
\* for the fields the map leaves out, in place of any cookie of that name
driver_add_cookie(m) ==
  Append(Without(cookies, m.name),
         m @@ Field("path", PyStr(RootPath))
           @@ Field("domain", PyStr(ExampleCom))
           @@ Field("secure", PyBool(FALSE))
           @@ Field("httpOnly", PyBool(FALSE)))

\* a join that writes the separator after every pair, the last included
RECURSIVE Join_separator_after_each(_)
Join_separator_after_each(pairs) ==
  IF pairs = <<>> THEN <<>>
  ELSE pairs[1] \o <<";", " ">> \o Join_separator_after_each(Tail(pairs))

\* '; '.join(pairs)
RECURSIVE Join(_)
Join(pairs) ==
  IF pairs = <<>> THEN <<>>
  ELSE IF Len(pairs) = 1 THEN pairs[1]
  ELSE pairs[1] \o <<";", " ">> \o Join(Tail(pairs))

Result(kw, arg, status, err, value) ==
  [kw |-> kw, arg |-> arg, status |-> status, error |-> err, value |-> value]

\* reading self.browser failed: the keyword raises what the property raised
NoBrowser(kw, arg) ==
  /\ result' = Result(kw, arg, "FAIL", browser.exc.type, PyNone)
  /\ UNCHANGED cookies

\* the page sets a cookie on its own (an HTTP response, a script)
page_sets_cookie(m) ==
  /\ current # NoConnection
  /\ cookies' = Append(Without(cookies, m.name), m)
  /\ UNCHANGED result
  /\ UNCHANGED <<facadeVars, translatorVars>>

\* CookieKeywords.delete_all_cookies
delete_all_cookies ==
  /\ IF browser.raised THEN NoBrowser("delete_all_cookies", PyNone)
     ELSE /\ cookies' = <<>>
          /\ result' = Result("delete_all_cookies", PyNone, "PASS", "", PyNone)
  /\ UNCHANGED <<facadeVars, translatorVars>>

\* CookieKeywords.delete_cookie
delete_cookie(name) ==
  /\ IF browser.raised THEN NoBrowser("delete_cookie", name)
     ELSE /\ cookies' = Without(cookies, name)
          /\ result' = Result("delete_cookie", name, "PASS", "", PyNone)
  /\ UNCHANGED <<facadeVars, translatorVars>>

\* CookieKeywords.get_cookies
get_cookies ==
  /\ IF browser.raised THEN NoBrowser("get_cookies", PyNone)
     ELSE /\ result' =
               Result("get_cookies", PyNone, "PASS", "",
                      PyStr(Join([i \in 1..Len(cookies) |->
                                    cookies[i].name.v \o <<"=">>
                                      \o cookies[i].value.v])))
          /\ UNCHANGED cookies
  /\ UNCHANGED <<facadeVars, translatorVars>>

\* CookieKeywords.get_cookie_value
get_cookie_value(name) ==
  /\ IF browser.raised THEN NoBrowser("get_cookie_value", name)
     ELSE LET c == driver_get_cookie(name)
          IN  /\ result' =
                   IF c # NoWire
                     THEN Result("get_cookie_value", name, "PASS", "", c.value)
                     ELSE Result("get_cookie_value", name, "FAIL",
                                 "ValueError", PyNone)
              /\ UNCHANGED cookies
  /\ UNCHANGED <<facadeVars, translatorVars>>

\* get_cookie that hands the caller None when there is no such cookie
get_cookie_returns_none(name) ==
  /\ IF browser.raised THEN NoBrowser("get_cookie", name)
     ELSE LET c == driver_get_cookie(name)
          IN  /\ result' =
                   IF c = NoWire
                     THEN Result("get_cookie", name, "PASS", "", PyNone)
                     ELSE Result("get_cookie", name, "PASS", "",
                                 [t |-> "CookieInformation",
                                  v |-> CookieInformation(c)])
              /\ UNCHANGED cookies
  /\ UNCHANGED <<facadeVars, translatorVars>>

\* CookieKeywords.get_cookie
get_cookie(name) ==
  /\ IF browser.raised THEN NoBrowser("get_cookie", name)
     ELSE LET c == driver_get_cookie(name)
          IN  /\ result' =
                   IF c = NoWire
                     THEN Result("get_cookie", name, "FAIL", "CookieNotFound",
                                 PyNone)
                     ELSE Result("get_cookie", name, "PASS", "",
                                 [t |-> "CookieInformation",
                                  v |-> CookieInformation(c)])
              /\ UNCHANGED cookies
  /\ UNCHANGED <<facadeVars, translatorVars>>

\* CookieKeywords.add_cookie, the browser's part included
add_cookie_keyword(a) ==
  /\ LET r == add_cookie(a.name, a.value, a.path, a.domain, a.secure,
                         a.expiry)
     IN  IF r.error # ""
           THEN /\ result' = Result("add_cookie", a.name, "FAIL", r.error,
                                    PyNone)
                /\ UNCHANGED cookies
         ELSE IF browser.raised THEN NoBrowser("add_cookie", a.name)
         ELSE /\ cookies' = driver_add_cookie(r.new_cookie)
              /\ result' = Result("add_cookie", a.name, "PASS", "", PyNone)
  /\ args' = a
  /\ UNCHANGED <<utcoffset, wire_map, cookie, new_cookie, error>>
  /\ UNCHANGED facadeVars

\* cookies that pages set: a session cookie and a secure, http-only cookie
\* with an expiry
PageCookies ==
  {[name |-> n, value |-> PyStr(bar), path |-> PyStr(RootPath),
    domain |-> PyStr(ExampleCom), secure |-> PyBool(FALSE),
    httpOnly |-> PyBool(FALSE)] : n \in CookieNames}
  \cup
  {[name |-> n, value |-> PyStr(<<>>), path |-> PyStr(RootPath),
    domain |-> PyStr(ExampleCom), secure |-> PyBool(TRUE),
    httpOnly |-> PyBool(TRUE), expiry |-> PyInt(1822137695)] :
     n \in CookieNames}

\* the add_cookie calls of the keyword user
UserArgs ==
  [name : CookieNames,
   value : {PyStr(bar)},
   path : {PyNone},
   domain : {PyNone},
   secure : {PyNone},
   expiry : {PyNone, PyInt(0), PyInt(1822137695),
             PyStr(<<"1", "8", "2", "2", "1", "3", "7", "6", "9", "5">>),
             PyStr(<<"2", "0", "2", "7", "-", "0", "9", "-", "2", "8", " ",
                   "1", "6", ":", "2", "1", ":", "3", "5">>),
             PyStr(<<"1", "9", "7", "0", "-", "0", "1", "-", "0", "2", " ",
                   "0", "0", ":", "0", "0", ":", "0", "0">>),
             PyStr(<<"s", "o", "o", "n">>)}]

CookieInit ==
  /\ run_on_failure_keyword = PyNone
  /\ _running_on_failure_keyword = FALSE
  /\ \/ sessions = {} /\ current = NoConnection
     \/ sessions = {"s1"} /\ current = "s1"
  /\ stack = <<>>
  /\ last = NoCall
  /\ utcoffset \in UtcOffsets
  /\ wire_map = NoWire
  /\ cookie = NoCookie
  /\ args = NoArgs
  /\ new_cookie = NoWire
  /\ error = ""
  /\ CookiesIdle

CookieNext ==
  \/ \E m \in PageCookies : page_sets_cookie(m)
  \/ \E a \in UserArgs : add_cookie_keyword(a)
  \/ \E n \in CookieNames : get_cookie(n)
  \/ \E n \in CookieNames : get_cookie_value(n)
  \/ get_cookies
  \/ \E n \in CookieNames : delete_cookie(n)
  \/ delete_all_cookies

CookieSpec == CookieInit /\ [][CookieNext]_vars

-----------------------------------------------------------------------------
(* Claims about the library facade, checked under Spec *)

\* the step in which the body of the innermost run_keyword call raises
BodyRaises ==
  /\ stack # <<>>
  /\ Top.pc = "body"
  /\ stack' # stack
  /\ ~(Len(stack') < Len(stack) /\ last'.status = "PASS")

\* the step in which a run_keyword call whose hook was running ends
HookEnds ==
  /\ stack # <<>>
  /\ Top.pc = "hook"
  /\ Len(stack') <= Len(stack)
  /\ stack' # stack

\* C1: when a keyword run by run_keyword raises while a run-on-failure
\* keyword is stored and no hook is executing, that very step starts the hook
\* keyword, once, with the call still active (nothing is raised yet); and the
\* only way such a call ends is by raising to its caller, the hook having
\* been started exactly once.
C1_HookOnceBeforeReraise ==
  [][ /\ (BodyRaises /\ truth(run_on_failure_keyword)
                      /\ ~_running_on_failure_keyword)
          => /\ Len(stack') = Len(stack)
             /\ stack'[Len(stack)].pc = "hook"
             /\ stack'[Len(stack)].started = 1
             /\ _running_on_failure_keyword'
      /\ HookEnds
          => /\ stack' = Pop
             /\ last'.status = "FAIL"
             /\ last'.depth = Len(stack)
             /\ last'.started = 1 ]_vars

\* a failed top-level call whose hook was started, after it raised
C1_Witness ==
  /\ stack = <<>>
  /\ last.status = "FAIL"
  /\ last.depth = 1
  /\ last.started = 1

\* C2: a failure inside the running hook keyword is a no-op for
\* failure_occurred: the nested run_keyword call starts no hook, leaves the
\* running flag set and just raises; and never is more than one hook
\* execution in progress.
C2_NestedFailureIsNoOp ==
  /\ [](Cardinality({i \in 1..Len(stack) : stack[i].pc = "hook"}) <= 1)
  /\ [][ (BodyRaises /\ _running_on_failure_keyword)
          => /\ stack' = Pop
             /\ last'.status = "FAIL"
             /\ last'.started = 0
             /\ _running_on_failure_keyword' ]_vars

\* a keyword run by the hook has failed and the hook is still running
C2_Witness ==
  /\ stack # <<>>
  /\ Top.pc = "hook"
  /\ _running_on_failure_keyword
  /\ last.status = "FAIL"
  /\ last.depth = Len(stack) + 1
  /\ last.started = 0

\* C3: what run_keyword raises is always the failure of its own keyword,
\* never a failure of the hook keyword; a hook failure is logged once the
\* hook was started and goes no further.
C3_OriginalFailurePropagates ==
  last.status = "FAIL"
    => /\ last.exc.depth = last.depth
       /\ last.exc.type # "HookError"
       /\ (last.logged # NoExc
              => last.started = 1 /\ last.logged # last.exc)

\* the hook keyword failed, was logged, and the keyword's failure was raised
C3_Witness ==
  /\ last.status = "FAIL"
  /\ last.logged # NoExc
  /\ last.exc.type = "ElementNotFound"

\* C4: with no run-on-failure keyword stored (run_on_failure "Nothing"), a
\* failing run_keyword starts no hook, changes nothing of the library's
\* state and raises the keyword's failure.
C4_DisabledHookFrame ==
  [][ (BodyRaises /\ ~truth(run_on_failure_keyword))
      => /\ stack' = Pop
         /\ last'.status = "FAIL"
         /\ last'.started = 0
         /\ last'.exc.depth = Len(stack)
         /\ last'.exc.type # ""
         /\ UNCHANGED <<run_on_failure_keyword, _running_on_failure_keyword,
                        sessions, current>> ]_vars

\* a top-level keyword failed with the feature disabled
C4_Witness ==
  /\ stack = <<>>
  /\ run_on_failure_keyword = resolve_keyword(Nothing)
  /\ ~_running_on_failure_keyword
  /\ last.status = "FAIL"
  /\ last.depth = 1
  /\ last.started = 0

\* what the step that ran the innermost call's body left behind: the ended
\* call's record, or the frame now waiting for the hook
BodyResult == IF Len(stack') = Len(stack) THEN stack'[Len(stack)] ELSE last'

\* C5: a keyword that reads SeleniumLibrary.browser fails with
\* RuntimeError 'No browser is open' whenever no session is current, and
\* otherwise works on exactly the current session; the read changes neither
\* the registry nor the current session.
C5_BrowserProperty ==
  [][ (stack # <<>> /\ Top.pc = "body" /\ stack' # stack
         /\ Top.op \in {"click_element", "capture_page_screenshot"})
      => /\ UNCHANGED <<sessions, current>>
         /\ IF current = NoConnection
              THEN /\ BodyRaises
                   /\ BodyResult.exc.type = "RuntimeError"
                   /\ BodyResult.exc.msg = "No browser is open"
              ELSE /\ BodyResult.value = current
                   /\ BodyResult.exc.type # "RuntimeError" ]_vars

\* the read failed although sessions are open: the current one was closed
C5_Witness ==
  /\ last.op = "click_element"
  /\ last.status = "FAIL"
  /\ last.exc.msg = "No browser is open"
  /\ sessions # {}
  /\ current = NoConnection

\* the read returned the current session
C5_WitnessCurrent ==
  /\ last.op = "click_element"
  /\ last.status = "PASS"
  /\ last.value = current
  /\ current # NoConnection

-----------------------------------------------------------------------------
(* Claims about the conversions, checked under TranslatorSpec *)

\* the wire map has been converted
Converted == wire_map # NoWire /\ cookie # NoCookie

\* add_cookie has run
Called == args # NoArgs /\ (new_cookie # NoWire \/ error # "")

\* C6: the CookieInformation built from a wire map carries name, value,
\* path, domain, secure and httpOnly as the wire map has them; whenever the
\* wire map has an expiry (0 included) the record's expiry is the calendar
\* time of that epoch value, and it is None only when the wire map has none.
C6_ToDomain ==
  Converted
    => /\ \A k \in DOMAIN wire_map \ {"expiry"} : cookie[k] = wire_map[k]
       /\ "expiry" \in DOMAIN wire_map
            => /\ cookie.expiry.t = "datetime"
               /\ mktime(cookie.expiry.v) = wire_map.expiry.v
       /\ "expiry" \notin DOMAIN wire_map => cookie.expiry = PyNone

C8_ToWire ==
  (wire_map = NoWire /\ Called /\ error = "")
    => /\ DOMAIN new_cookie
            = {"name", "value"}
              \cup {k \in {"path", "domain", "secure", "expiry"} :
                      args[k] # PyNone}
       /\ \A k \in DOMAIN new_cookie \ {"secure", "expiry"} :
            new_cookie[k] = args[k]
       /\ args.secure # PyNone
            => \E c \in SecureCases :
                 c.arg = args.secure /\ new_cookie.secure = PyBool(c.sent)

\* secure given as "false" and an empty path were sent; domain was left out
C8_Witness ==
  /\ wire_map = NoWire
  /\ Called
  /\ args.secure = PyStr(<<"f", "a", "l", "s", "e">>)
  /\ args.path = PyStr(<<>>)
  /\ args.domain = PyNone
  /\ new_cookie.secure = PyBool(FALSE)
  /\ new_cookie.path = PyStr(<<>>)
  /\ "domain" \notin DOMAIN new_cookie

\* C9: an expiry that is an integer, or text that int() reads, is sent as
\* that number of epoch seconds, also when the text would read as a date
\* too; text that only reads as a date is sent as the integer epoch seconds
\* of that local time; with any other expiry add_cookie raises and hands
\* nothing to the browser.
C9_Expiry ==
  (wire_map = NoWire /\ Called /\ args.expiry # PyNone)
    => \E c \in ExpiryCases :
         /\ c.arg = args.expiry
         /\ c.form = "epoch"
              => error = "" /\ new_cookie.expiry = PyInt(c.epoch)
         /\ c.form = "date"
              => /\ error = ""
                 /\ new_cookie.expiry.t = "int"
                 /\ fromtimestamp(new_cookie.expiry.v) = PyDatetime(c.local)
         /\ c.form = "neither" => error # "" /\ new_cookie = NoWire

\* "20270928" was sent as epoch seconds
C9_Witness ==
  /\ wire_map = NoWire
  /\ Called
  /\ args.expiry = PyStr(<<"2", "0", "2", "7", "0", "9", "2", "8">>)
  /\ new_cookie.expiry = PyInt(20270928)

\* "2027-09-28 16:21:35" was sent as the epoch seconds of that local time
C9_WitnessDate ==
  /\ wire_map = NoWire
  /\ Called
  /\ utcoffset = 10800
  /\ args.expiry = PyStr(<<"2", "0", "2", "7", "-", "0", "9", "-", "2", "8", " ",
                     "1", "6", ":", "2", "1", ":", "3", "5">>)
  /\ new_cookie.expiry = PyInt(1822137695)

\* add_cookie failed on "soon" and sent nothing
C9_WitnessNeither ==
  /\ wire_map = NoWire
  /\ Called
  /\ args.expiry = PyStr(<<"s", "o", "o", "n">>)
  /\ error = "ValueError"
  /\ new_cookie = NoWire

-----------------------------------------------------------------------------
(* Claims about the cookie keywords, checked under CookieSpec *)

\* the step in which keyword kw runs (and does not merely repeat its result)
Runs(kw) == result' # result /\ result'.kw = kw

C10_WitnessFound ==
  /\ result.kw = "get_cookie"
  /\ result.status = "PASS"
  /\ Len(cookies) = 2
  /\ cookies[2].name = result.arg
  /\ result.value.v.value = cookies[2].value

\* what the caller of add_cookie means by the expiry e
Denoted(e) == CHOOSE c \in ExpiryCases : c.arg = e

\* the map the last add_cookie call gave the browser
new_cookie_of_args ==
  add_cookie(args.name, args.value, args.path, args.domain, args.secure,
             args.expiry).new_cookie

\* the browser has the cookie as the last add_cookie call left it: no page
\* has set a cookie of that name since
Undisturbed ==
  /\ cookies # <<>>
  /\ LET jar == driver_add_cookie(new_cookie_of_args)
     IN  cookies[Len(cookies)] = jar[Len(jar)]

\* the step in which get_cookie(name) runs right after add_cookie(name, value,
\* expiry=e) passed, e being an epoch value or a date
AddThenGet ==
  /\ result.kw = "add_cookie"
  /\ result.status = "PASS"
  /\ Undisturbed
  /\ args.expiry # PyNone
  /\ Denoted(args.expiry).form \in {"epoch", "date"}
  /\ Runs("get_cookie")
  /\ result'.arg = args.name

\* the datetime d is the calendar timestamp the expiry e denotes: the local
\* time of e's epoch value, or the local time e spells out
IsTimestampOf(d, e) ==
  /\ d.t = "datetime"
  /\ IF Denoted(e).form = "epoch" THEN mktime(d.v) = Denoted(e).epoch
                                  ELSE d.v = Denoted(e).local

\* C11: add_cookie(name, value, expiry=e) followed by get_cookie(name) returns
\* a record with that name and value whose expiry is the calendar timestamp
\* that e denotes.
C11_AddThenGet ==
  [][ AddThenGet
      => /\ result'.status = "PASS"
         /\ result'.value.t = "CookieInformation"
         /\ result'.value.v.name = args.name
         /\ result'.value.v.value = args.value
         /\ IsTimestampOf(result'.value.v.expiry, args.expiry) ]_vars

\* C11 for every expiry other than the epoch's own second: the same, for the
\* calls whose expiry does not denote epoch value 0
C11_AddThenGetAfterEpoch ==
  [][ (AddThenGet /\ new_cookie_of_args.expiry # PyInt(0))
      => /\ result'.status = "PASS"
         /\ result'.value.v.name = args.name
         /\ result'.value.v.value = args.value
         /\ IsTimestampOf(result'.value.v.expiry, args.expiry) ]_vars

\* get_cookie returned the record of the cookie added with
\* expiry="2027-09-28 16:21:35", and its expiry year is 2027
C11_Witness ==
  /\ result.kw = "get_cookie"
  /\ result.status = "PASS"
  /\ args.expiry = PyStr(<<"2", "0", "2", "7", "-", "0", "9", "-", "2", "8",
                          " ", "1", "6", ":", "2", "1", ":", "3", "5">>)
  /\ result.arg = args.name
  /\ cookies[Len(cookies)].name = args.name
  /\ "expiry" \in DOMAIN cookies[Len(cookies)]
  /\ result.value.v.expiry.t = "datetime"
  /\ result.value.v.expiry.v[1] = 2027

\* get_cookie returned a record without an expiry for the cookie just added
\* with expiry=0
C11_WitnessEpochZero ==
  /\ result.kw = "get_cookie"
  /\ result.status = "PASS"
  /\ args.expiry = PyInt(0)
  /\ result.arg = args.name
  /\ cookies[Len(cookies)].name = args.name
  /\ "expiry" \in DOMAIN cookies[Len(cookies)]
  /\ result.value.v.expiry = PyNone

\* the name=value pair of the i-th cookie the browser returns
Pair(i) == cookies[i].name.v \o <<"=">> \o cookies[i].value.v

\* where the i-th pair starts in a string that holds the pairs in the
\* browser's order with two characters between neighbours
RECURSIVE Offset(_)
Offset(i) == IF i = 1 THEN 0 ELSE Offset(i - 1) + Len(Pair(i - 1)) + 2

\* the string s holds exactly the pairs of the browser's cookies, in the
\* browser's order, "; " between neighbours and nothing else
IsCookieString(s) ==
  LET n == Len(cookies)
  IN  /\ Len(s) = IF n = 0 THEN 0 ELSE Offset(n) + Len(Pair(n))
      /\ \A i \in 1..n :
           SubSeq(s, Offset(i) + 1, Offset(i) + Len(Pair(i))) = Pair(i)
      /\ \A i \in 1..(n - 1) :
           SubSeq(s, Offset(i) + Len(Pair(i)) + 1, Offset(i + 1))
             = <<";", " ">>

\* C12: with a current browser, get_cookies returns one string holding a
\* name=value pair per cookie, in the order the browser returned them, joined
\* by "; " with no leading or trailing separator, and the empty string when
\* the browser has no cookies; the browser's cookies stay as they are.
C12_GetCookies ==
  [][ (Runs("get_cookies") /\ current # NoConnection)
      => /\ result'.status = "PASS"
         /\ result'.value.t = "str"
         /\ IsCookieString(result'.value.v)
         /\ (cookies = <<>> => result'.value = PyStr(<<>>))
         /\ cookies' = cookies ]_vars

\* get_cookies returned the string of two cookies, the second with an empty
\* value
C12_Witness ==
  /\ result.kw = "get_cookies"
  /\ result.status = "PASS"
  /\ Len(cookies) = 2
  /\ cookies[2].value = PyStr(<<>>)
  /\ result.value =
       PyStr(cookies[1].name.v \o <<"=">> \o cookies[1].value.v
               \o <<";", " ">> \o cookies[2].name.v \o <<"=">>)

\* get_cookies returned the empty string, the browser having no cookies
C12_WitnessEmpty ==
  /\ result.kw = "get_cookies"
  /\ result.status = "PASS"
  /\ current # NoConnection
  /\ cookies = <<>>
  /\ result.value = PyStr(<<>>)

-----------------------------------------------------------------------------
(* The guard flag over sequences of failures, checked under Spec *)

\* BuiltIn().run_keyword is executing the run-on-failure keyword
HookRunning == \E i \in 1..Len(stack) : stack[i].pc = "hook"

\* the step in which a failing body makes failure_occurred start the hook
HookStarts ==
  /\ Len(stack') = Len(stack)
  /\ stack'[Len(stack)].pc = "hook"
  /\ _running_on_failure_keyword'

\* C13, as claimed: the flag is true only while the run-on-failure keyword
\* is executing; when failure_occurred returns after running the hook,
\* whether the hook succeeded or raised, the flag is false and the stored
\* keyword is the one it ran, so that the next failing keyword triggers the
\* hook again.
C13_FlagClearedKeywordKept ==
  /\ [](_running_on_failure_keyword <=> HookRunning)
  /\ [][ HookEnds
         => /\ ~_running_on_failure_keyword'
            /\ run_on_failure_keyword' = Top.keyword
            /\ truth(run_on_failure_keyword') ]_vars

\* C13, amended: the flag is true exactly while the run-on-failure keyword
\* is executing; failure_occurred's return clears it and does not itself
\* touch the stored keyword, whether the hook succeeded or raised; while the
\* hook runs the stored keyword changes only when a keyword run by the hook
\* registers another one; and a keyword failing while no hook runs triggers
\* the hook exactly when a keyword is stored at that moment.
C13_FlagClearedAmended ==
  /\ [](_running_on_failure_keyword <=> HookRunning)
  /\ [][ HookEnds
         => /\ ~_running_on_failure_keyword'
            /\ UNCHANGED run_on_failure_keyword ]_vars
  /\ [][ (HookRunning /\ run_on_failure_keyword' # run_on_failure_keyword)
         => /\ Top.pc = "body"
            /\ Top.op = "register_keyword_to_run_on_failure"
            /\ stack' = Pop
            /\ last'.status = "PASS" ]_vars
  /\ [][ (BodyRaises /\ ~HookRunning)
         => (HookStarts <=> truth(run_on_failure_keyword)) ]_vars

\* a second failing keyword has the hook running again, after the hook of an
\* earlier failing keyword raised and failure_occurred returned
C13_Witness ==
  /\ Len(stack) = 1
  /\ Top.pc = "hook"
  /\ _running_on_failure_keyword
  /\ last.depth = 1
  /\ last.status = "FAIL"
  /\ last.started = 1
  /\ last.logged # NoExc

\* the running hook has registered Nothing: failure_occurred is about to
\* return with a stored keyword other than the one it ran
C13_WitnessReregistered ==
  /\ Len(stack) = 1
  /\ Top.pc = "hook"
  /\ last.op = "register_keyword_to_run_on_failure"
  /\ last.depth = 2
  /\ last.status = "PASS"
  /\ run_on_failure_keyword = PyNone
  /\ Top.keyword # PyNone

====
